---- MODULE Spec2Model ----
(***************************************************************************)
(* Model of buybot.ts: the Telegram buy bot that polls a UniswapV2-style   *)
(* pair for Swap logs, classifies buys of the tracked token and sends one  *)
(* notification per buy.  The file holds two variants of the bot; both     *)
(* are modelled, selected by `variant`.                                    *)
(*   variant 1: src/buybot.ts lines 1-297   (spent amount + buyer lookup)  *)
(*   variant 2: src/buybot.ts lines 298-585 (log bar + tier badge only)    *)
(* Every `await` of main() is one step of the model.                       *)
(***************************************************************************)
EXTENDS Integers, Sequences, FiniteSets, TLC

\* ---- bounds of the exploration ----
MaxHead == 5        \* block heights the chain-head reader can report: 0..MaxHead
MaxFail == 2        \* non-fatal failures of external calls in one run

\* ---- settings (program constants) ----
CONFIRMATIONS == 2
DEFAULT_DECIMALS == 18
LOG_BAR_BLOCKS == 10
LOG_BAR_BASE == 100
BAR_FILLED == "filled"
BAR_EMPTY == "empty"

\* a field of log.args that is undefined
Absent == -1

\* ---- addresses and on-chain data seen through the RPC client ----
FROG_ADDRESS == "frog"
OTHER_ADDRESS == "other"
THIRD_ADDRESS == "third"
NoAddr == "none"

\* decimals() / symbol() as the chain would answer them
ChainDecimals(a) == IF a = FROG_ADDRESS THEN 9 ELSE 6
ChainSymbol(a) == IF a = FROG_ADDRESS THEN "RIBBIT" ELSE "SEI"

Blocks == 1..MaxHead

\* number of Swap logs of the pair in block b
LogsInBlock(b) == b % 3

\* the Swap log with in-block index k of block b (log.args, log.transactionHash,
\* and the `from` of its transaction)
SwapLog(b, k) ==
  LET p == (b + k) % 3 IN
  [ block |-> b, index |-> k,
    amount0In  |-> IF p = 1 THEN 50 ELSE 0,
    amount1In  |-> IF p = 0 THEN 10 ELSE 0,
    amount0Out |-> IF p = 0 THEN 500 ELSE IF p = 2 THEN 200 ELSE 0,
    amount1Out |-> IF p = 1 THEN 3000 ELSE IF p = 2 THEN 100 ELSE 0,
    to   |-> IF p = 2 THEN "eoa" ELSE "recipient",
    from |-> IF p = 2 THEN "eoa" ELSE "initiator" ]

LogId(log) == <<log.block, log.index>>

LogIds == { id \in Blocks \X (1..2) : id[2] <= LogsInBlock(id[1]) }

\* logs of one block in in-block order
RECURSIVE BlockLogs(_, _)
BlockLogs(b, k) ==
  IF k > LogsInBlock(b) THEN <<>> ELSE <<SwapLog(b, k)>> \o BlockLogs(b, k + 1)

\* client.getLogs({fromBlock, toBlock}): ordered by (block, index)
RECURSIVE GetLogs(_, _)
GetLogs(from, to) ==
  IF from > to THEN <<>> ELSE BlockLogs(from, 1) \o GetLogs(from + 1, to)

VARIABLES
  variant,        \* which of the two programs of the file runs
  chainPair,      \* <<token0, token1>> of the pair contract on chain
  pc,             \* position of main()
  token0, token1, \* results of the pair reads
  frogMeta,       \* tracked token: decimals, symbol
  otherMeta,      \* counter token: decimals, symbol (variant 1)
  lastProcessed,  \* the cursor
  head, toBlock, fromBlock, \* per-tick constants
  logs, idx,      \* batch returned by getLogs and position of the for loop
  buyer,          \* result of the initiator lookup (NoAddr = null)
  exitCode,       \* 0 while running, 1 after process.exit(1)
  \* ---- observation of the run (not program state) ----
  thrown,         \* what rejected main(): "none", "config", or the external call
  fails,          \* failures of external calls so far
  reports,        \* console.error reports so far (capped at 1 + MaxFail)
  startupHead,    \* head read at line 190 / 496
  sent,           \* per log id: hand-offs to sendTelegram
  lastMsg,        \* last message handed to sendTelegram
  covered,        \* per block: number of completed ranges containing it
  tick,           \* per-tick observations
  prevTick,       \* the log request of the previous tick, if its fetch failed
  probe           \* argument and results of a direct call of the classifier

startVars == <<variant, chainPair, token0, token1, frogMeta, otherMeta, startupHead>>
tickVars  == <<head, toBlock, fromBlock, logs, idx, buyer>>
obsVars   == <<sent, lastMsg, covered, tick, prevTick>>
vars == <<variant, chainPair, pc, token0, token1, frogMeta, otherMeta,
          lastProcessed, head, toBlock, fromBlock, logs, idx, buyer, exitCode,
          thrown, fails, reports, startupHead, sent, lastMsg, covered, tick,
          prevTick, probe>>

NoMeta == [decimals |-> 0, symbol |-> "", decFailed |-> FALSE, symFailed |-> FALSE]
NoTick == [requested |-> FALSE, fetched |-> FALSE, fetchFailed |-> FALSE,
           aborted |-> FALSE, lookups |-> {}, lookupFailed |-> {},
           deliveryError |-> FALSE,
           dispatched |-> {}, writes |-> 0, cursor0 |-> 0]
NoPrev == [fetchFailed |-> FALSE, from |-> 0, to |-> 0, head |-> 0]


\* ---- JavaScript numbers: units + a fraction in [0,1), or a non-finite value ----
Num(units, fracPos) == [kind |-> "finite", units |-> units, fracPos |-> fracPos]
NaN == [kind |-> "nan", units |-> 0, fracPos |-> FALSE]
Infinity == [kind |-> "inf", units |-> 0, fracPos |-> FALSE]
NegInfinity == [kind |-> "-inf", units |-> 0, fracPos |-> FALSE]

\* Number.isFinite(n)
isFinite(n) == n.kind = "finite"

\* n >= t for a finite n and an integer t
AtLeast(n, t) == n.units >= t

\* n <= 0 for a finite n
NotPositive(n) == n.units < 0 \/ (n.units = 0 /\ ~n.fracPos)

NoProbe == [amount |-> Num(0, FALSE), badge |-> "", bar |-> <<>>, done |-> FALSE]

RECURSIVE Pow2(_)
\* Math.pow(2, i)
Pow2(i) == IF i = 0 THEN 1 ELSE 2 * Pow2(i - 1)

RECURSIVE repeat(_, _)
\* sym.repeat(n)
repeat(sym, n) == IF n <= 0 THEN <<>> ELSE <<sym>> \o repeat(sym, n - 1)

Threshold_Linear(i) == LOG_BAR_BASE * (i + 1)

\* const threshold = LOG_BAR_BASE * Math.pow(2, i)
Threshold(i) == LOG_BAR_BASE * Pow2(i)

RECURSIVE FilledFrom(_, _)
\* the for loop of buildLogBar from slot i on, with `filled` = i: counts up
\* while the threshold is met, breaks at the first slot that is not
FilledFrom(amountFrog, i) ==
  IF i < LOG_BAR_BLOCKS /\ AtLeast(amountFrog, Threshold(i))
  THEN FilledFrom(amountFrog, i + 1)
  ELSE i

buildLogBar(amountFrog) ==
  IF ~isFinite(amountFrog) \/ NotPositive(amountFrog)
  THEN repeat(BAR_EMPTY, LOG_BAR_BLOCKS)
  ELSE LET filled == FilledFrom(amountFrog, 0) IN
       repeat(BAR_FILLED, filled) \o repeat(BAR_EMPTY, LOG_BAR_BLOCKS - filled)

tierBadge_Exclusive(amountFrog) ==
  IF ~isFinite(amountFrog) \/ NotPositive(amountFrog) THEN "Splash"
  ELSE IF AtLeast(amountFrog, 50001) THEN "Frog King"
  ELSE IF AtLeast(amountFrog, 10001) THEN "Swamp Boss"
  ELSE IF AtLeast(amountFrog, 1001) THEN "Big Frog"
  ELSE IF AtLeast(amountFrog, 101) THEN "Tadpole"
  ELSE "Splash"

tierBadge(amountFrog) ==
  IF ~isFinite(amountFrog) \/ NotPositive(amountFrog) THEN "Splash"
  ELSE IF AtLeast(amountFrog, 50000) THEN "Frog King"
  ELSE IF AtLeast(amountFrog, 10000) THEN "Swamp Boss"
  ELSE IF AtLeast(amountFrog, 1000) THEN "Big Frog"
  ELSE IF AtLeast(amountFrog, 100) THEN "Tadpole"
  ELSE "Splash"

RECURSIVE DivPow10(_, _)
\* value divided by 10^decimals, rounded down
DivPow10(value, decimals) ==
  IF decimals = 0 \/ value = 0 THEN value ELSE DivPow10(value \div 10, decimals - 1)

RECURSIVE Pow10(_)
Pow10(d) == IF d = 0 THEN 1 ELSE 10 * Pow10(d - 1)

\* formatUnits(value, decimals): the decimal value * 10^-decimals, as its
\* integer part and the `decimals` digits after the point read as a number
formatUnits(value, decimals) ==
  LET units == DivPow10(value, decimals) IN
  [ units |-> units,
    frac |-> IF units = 0 THEN value ELSE value - units * Pow10(decimals),
    decimals |-> decimals ]

\* the string "0"
ZeroString == [units |-> 0, frac |-> 0, decimals |-> 0]

\* Number(decimalString)
Number(h) == Num(h.units, h.frac > 0)

NoMsg == [tx |-> <<0, 0>>, symbol |-> "", bought |-> 0, boughtHuman |-> ZeroString,
          spent |-> 0, spentHuman |-> ZeroString, spentSymbol |-> "", badge |-> "",
          bar |-> <<>>, actor |-> NoAddr, label |-> ""]

CanFail == fails < MaxFail
Report == IF reports < 1 + MaxFail THEN reports + 1 ELSE reports

frogIs0 == token0 = FROG_ADDRESS
frogIs1 == token1 = FROG_ADDRESS

Init ==
  /\ variant \in {1, 2}
  /\ chainPair \in { <<FROG_ADDRESS, OTHER_ADDRESS>>,
                     <<OTHER_ADDRESS, FROG_ADDRESS>>,
                     <<OTHER_ADDRESS, THIRD_ADDRESS>> }
  /\ pc = "token0"
  /\ token0 = NoAddr /\ token1 = NoAddr
  /\ frogMeta = NoMeta /\ otherMeta = NoMeta
  /\ lastProcessed = 0
  /\ head = 0 /\ toBlock = 0 /\ fromBlock = 0
  /\ logs = <<>> /\ idx = 0 /\ buyer = NoAddr
  /\ exitCode = 0
  /\ thrown = "none" /\ fails = 0 /\ reports = 0
  /\ startupHead = 0
  /\ sent = [id \in LogIds |-> 0]
  /\ lastMsg = NoMsg
  /\ covered = [b \in Blocks |-> 0]
  /\ tick = NoTick
  /\ prevTick = NoPrev
  /\ probe = NoProbe

\* an await of main() outside the loop's try rejects: main() rejects
Throw(what) ==
  /\ pc' = "rejected"
  /\ thrown' = what

----------------------------------------------------------------------------
\* startup

ReadToken0Ok ==
  /\ pc = "token0"
  /\ token0' = chainPair[1]
  /\ pc' = "token1"
  /\ UNCHANGED <<probe, variant, chainPair, token1, frogMeta, otherMeta, lastProcessed,
                 tickVars, exitCode, thrown, fails, reports, startupHead, obsVars>>

ReadToken0Fail ==
  /\ pc = "token0"
  /\ Throw("token0")
  /\ UNCHANGED <<probe, startVars, lastProcessed, tickVars, exitCode, fails, reports, obsVars>>

ReadToken1Ok ==
  /\ pc = "token1"
  /\ token1' = chainPair[2]
  /\ pc' = "check"
  /\ UNCHANGED <<probe, variant, chainPair, token0, frogMeta, otherMeta, lastProcessed,
                 tickVars, exitCode, thrown, fails, reports, startupHead, obsVars>>

ReadToken1Fail ==
  /\ pc = "token1"
  /\ Throw("token1")
  /\ UNCHANGED <<probe, startVars, lastProcessed, tickVars, exitCode, fails, reports, obsVars>>

\* if (!frogIs0 && !frogIs1) throw new Error(...)
CheckPairOk ==
  /\ pc = "check"
  /\ frogIs0 \/ frogIs1
  /\ pc' = IF variant = 1 THEN "frogMeta" ELSE "frogDecimals"
  /\ UNCHANGED <<probe, startVars, lastProcessed, tickVars, exitCode, thrown, fails,
                 reports, obsVars>>

CheckPairBad ==
  /\ pc = "check"
  /\ ~frogIs0 /\ ~frogIs1
  /\ Throw("config")
  /\ UNCHANGED <<probe, startVars, lastProcessed, tickVars, exitCode, fails, reports, obsVars>>

\* variant 1: both reads carry their own .catch with the default
readTokenMeta(address, decOk, symOk) ==
  [ decimals  |-> IF decOk THEN ChainDecimals(address) ELSE DEFAULT_DECIMALS,
    symbol    |-> IF symOk THEN ChainSymbol(address) ELSE "TOKEN",
    decFailed |-> ~decOk,
    symFailed |-> ~symOk ]

FailCount(decOk, symOk) == (IF decOk THEN 0 ELSE 1) + (IF symOk THEN 0 ELSE 1)

ReadFrogMeta ==
  /\ pc = "frogMeta"
  /\ \E decOk \in BOOLEAN, symOk \in BOOLEAN :
       /\ fails + FailCount(decOk, symOk) <= MaxFail
       /\ frogMeta' = readTokenMeta(FROG_ADDRESS, decOk, symOk)
       /\ fails' = fails + FailCount(decOk, symOk)
  /\ pc' = "otherMeta"
  /\ UNCHANGED <<probe, variant, chainPair, token0, token1, otherMeta, lastProcessed,
                 tickVars, exitCode, thrown, reports, startupHead, obsVars>>

otherToken == IF frogIs0 THEN token1 ELSE token0

ReadOtherMeta ==
  /\ pc = "otherMeta"
  /\ \E decOk \in BOOLEAN, symOk \in BOOLEAN :
       /\ fails + FailCount(decOk, symOk) <= MaxFail
       /\ otherMeta' = readTokenMeta(otherToken, decOk, symOk)
       /\ fails' = fails + FailCount(decOk, symOk)
  /\ pc' = "initHead"
  /\ UNCHANGED <<probe, variant, chainPair, token0, token1, frogMeta, lastProcessed,
                 tickVars, exitCode, thrown, reports, startupHead, obsVars>>

\* variant 2: the decimals read has no .catch
ReadFrogDecimalsOk ==
  /\ pc = "frogDecimals"
  /\ frogMeta' = [frogMeta EXCEPT !.decimals = ChainDecimals(FROG_ADDRESS)]
  /\ pc' = "frogSymbol"
  /\ UNCHANGED <<probe, variant, chainPair, token0, token1, otherMeta, lastProcessed,
                 tickVars, exitCode, thrown, fails, reports, startupHead, obsVars>>

ReadFrogDecimalsFail ==
  /\ pc = "frogDecimals"
  /\ Throw("decimals")
  /\ frogMeta' = [frogMeta EXCEPT !.decFailed = TRUE]
  /\ UNCHANGED <<probe, variant, chainPair, token0, token1, otherMeta, lastProcessed,
                 tickVars, exitCode, fails, reports, startupHead, obsVars>>

\* variant 2: .catch(() => "FROG")
ReadFrogSymbolOk ==
  /\ pc = "frogSymbol"
  /\ frogMeta' = [frogMeta EXCEPT !.symbol = ChainSymbol(FROG_ADDRESS)]
  /\ pc' = "initHead"
  /\ UNCHANGED <<probe, variant, chainPair, token0, token1, otherMeta, lastProcessed,
                 tickVars, exitCode, thrown, fails, reports, startupHead, obsVars>>

ReadFrogSymbolFail ==
  /\ pc = "frogSymbol"
  /\ CanFail
  /\ frogMeta' = [frogMeta EXCEPT !.symbol = "FROG", !.symFailed = TRUE]
  /\ fails' = fails + 1
  /\ pc' = "initHead"
  /\ UNCHANGED <<probe, variant, chainPair, token0, token1, otherMeta, lastProcessed,
                 tickVars, exitCode, thrown, reports, startupHead, obsVars>>

\* let lastProcessed = await client.getBlockNumber()
InitHeadOk ==
  /\ pc = "initHead"
  /\ \E h \in 0..MaxHead :
       /\ lastProcessed' = h
       /\ startupHead' = h
  /\ pc' = "online"
  /\ UNCHANGED <<probe, variant, chainPair, token0, token1, frogMeta, otherMeta,
                 tickVars, exitCode, thrown, fails, reports, obsVars>>

InitHeadFail ==
  /\ pc = "initHead"
  /\ Throw("initHead")
  /\ UNCHANGED <<probe, startVars, lastProcessed, tickVars, exitCode, fails, reports, obsVars>>

\* await sendTelegram("Bot online ..."): delivered
OnlineOk ==
  /\ pc = "online"
  /\ pc' = "head"
  /\ UNCHANGED <<probe, startVars, lastProcessed, tickVars, exitCode, thrown, fails,
                 reports, obsVars>>

\* ... answered with !r.ok: console.error, sendTelegram returns
OnlineRejected ==
  /\ pc = "online"
  /\ CanFail
  /\ fails' = fails + 1
  /\ reports' = Report
  /\ pc' = "head"
  /\ UNCHANGED <<probe, startVars, lastProcessed, tickVars, exitCode, thrown, obsVars>>

\* ... fetch() rejects (sink unreachable): sendTelegram rejects
OnlineThrows ==
  /\ pc = "online"
  /\ Throw("online")
  /\ UNCHANGED <<probe, startVars, lastProcessed, tickVars, exitCode, fails, reports, obsVars>>

\* main().catch((e) => { console.error("Fatal:", e); process.exit(1); })
Fatal ==
  /\ pc = "rejected"
  /\ pc' = "exited"
  /\ exitCode' = 1
  /\ reports' = Report
  /\ UNCHANGED <<probe, startVars, lastProcessed, tickVars, thrown, fails, obsVars>>

----------------------------------------------------------------------------
\* the poll loop

ToBlockOf_NoLag(h) == h

ToBlockOf_AtDepth(h) == IF h >= CONFIRMATIONS THEN h - CONFIRMATIONS ELSE h

\* head > BigInt(CONFIRMATIONS) ? head - BigInt(CONFIRMATIONS) : head
ToBlockOf(h) == IF h > CONFIRMATIONS THEN h - CONFIRMATIONS ELSE h

FromBlockOf_Same(cursor) == cursor

\* lastProcessed + 1n
FromBlockOf(cursor) == cursor + 1

HasRange_Always(from, to) == TRUE

HasRange_Loose(from, to) == from <= to + 1

HasRange_Strict(from, to) == from < to

\* if (fromBlock <= toBlock)
HasRange(from, to) == from <= to

LoopFinished_Early(i, batch) == i >= 1

\* the for loop has run through the batch
LoopFinished(i, batch) == i > Len(batch)

\* frogIs0 ? amount0Out : amount1Out
frogOut(log) == IF frogIs0 THEN log.amount0Out ELSE log.amount1Out

spentRaw_SameSlot(log) == IF frogIs0 THEN log.amount0In ELSE log.amount1In

\* frogIs0 ? amount1In : amount0In
spentRaw(log) == IF frogIs0 THEN log.amount1In ELSE log.amount0In

IsBuy_AnyOut(log) == log.amount0Out > 0 \/ log.amount1Out > 0

\* the loop body runs past `continue` (variant 1) / into the `if` (variant 2):
\* !(!frogOut || frogOut <= 0n)
IsBuy(log) == frogOut(log) # Absent /\ frogOut(log) > 0

\* spentRaw ? spentRaw : 0 -- the raw amount behind spentHuman
SpentOrZero(log) ==
  IF spentRaw(log) = Absent \/ spentRaw(log) = 0 THEN 0 ELSE spentRaw(log)

\* spentRaw ? formatUnits(spentRaw, otherMeta.decimals) : "0"
SpentHuman(log) ==
  IF spentRaw(log) = Absent \/ spentRaw(log) = 0
  THEN ZeroString
  ELSE formatUnits(spentRaw(log), otherMeta.decimals)

\* Number.isFinite(frogNum) ? frogNum : 0
AmountFrog(log) ==
  LET frogNum == Number(formatUnits(frogOut(log), frogMeta.decimals)) IN
  IF isFinite(frogNum) THEN frogNum ELSE Num(0, FALSE)

\* the message of a buy: token symbol, bought amount, spent amount and its
\* symbol (variant 1), badge and bar, and in variant 1 the actor link
\* buyer ? link(buyer) : link(to) under the fixed label "Buyer:"
ComposeMsg(log, b) ==
  [ tx |-> LogId(log), symbol |-> frogMeta.symbol,
    bought |-> frogOut(log),
    boughtHuman |-> formatUnits(frogOut(log), frogMeta.decimals),
    spent |-> IF variant = 1 THEN SpentOrZero(log) ELSE 0,
    spentHuman |-> IF variant = 1 THEN SpentHuman(log) ELSE ZeroString,
    spentSymbol |-> IF variant = 1 THEN otherMeta.symbol ELSE "",
    badge |-> tierBadge(AmountFrog(log)),
    bar |-> buildLogBar(AmountFrog(log)),
    actor |-> IF variant = 1 THEN (IF b # NoAddr THEN b ELSE log.to) ELSE NoAddr,
    label |-> IF variant = 1 THEN "Buyer" ELSE "" ]

\* catch (e) { console.error("Loop error:", e); }
CatchLoopError ==
  /\ pc' = "sleep"
  /\ reports' = Report
  /\ fails' = fails + 1

\* const head = await client.getBlockNumber(); toBlock, fromBlock; the guard
ReadHeadOk ==
  /\ pc = "head"
  /\ \E h \in 0..MaxHead :
       /\ head' = h
       /\ toBlock' = ToBlockOf(h)
  /\ fromBlock' = FromBlockOf(lastProcessed)
  /\ pc' = IF HasRange(fromBlock', toBlock') THEN "getLogs" ELSE "sleep"
  /\ tick' = [NoTick EXCEPT !.cursor0 = lastProcessed,
                            !.requested = HasRange(fromBlock', toBlock')]
  /\ UNCHANGED <<probe, startVars, lastProcessed, logs, idx, buyer, exitCode, thrown,
                 fails, reports, sent, lastMsg, covered, prevTick>>

ReadHeadFail ==
  /\ pc = "head"
  /\ CanFail
  /\ CatchLoopError
  /\ tick' = [NoTick EXCEPT !.cursor0 = lastProcessed, !.aborted = TRUE]
  /\ UNCHANGED <<probe, startVars, lastProcessed, tickVars, exitCode, thrown, sent,
                 lastMsg, covered, prevTick>>

\* const logs = await client.getLogs({ fromBlock, toBlock })
GetLogsOk ==
  /\ pc = "getLogs"
  /\ logs' = GetLogs(fromBlock, toBlock)
  /\ idx' = 1
  /\ pc' = "loop"
  /\ tick' = [tick EXCEPT !.fetched = TRUE]
  /\ UNCHANGED <<probe, startVars, lastProcessed, head, toBlock, fromBlock, buyer,
                 exitCode, thrown, fails, reports, sent, lastMsg, covered, prevTick>>

GetLogsFail_SkipsRange ==
  /\ pc = "getLogs"
  /\ CanFail
  /\ CatchLoopError
  /\ tick' = [tick EXCEPT !.fetchFailed = TRUE, !.aborted = TRUE]
  /\ lastProcessed' = toBlock
  /\ UNCHANGED <<probe, startVars, tickVars, exitCode, thrown, sent,
                 lastMsg, covered, prevTick>>

\* getLogs rejects into the loop's catch
GetLogsFail ==
  /\ pc = "getLogs"
  /\ CanFail
  /\ CatchLoopError
  /\ tick' = [tick EXCEPT !.fetchFailed = TRUE, !.aborted = TRUE]
  /\ UNCHANGED <<probe, startVars, lastProcessed, tickVars, exitCode, thrown, sent,
                 lastMsg, covered, prevTick>>

\* for (const log of logs): a log that is not a buy is passed over
SkipLog ==
  /\ pc = "loop"
  /\ idx <= Len(logs)
  /\ ~IsBuy(logs[idx])
  /\ idx' = idx + 1
  /\ UNCHANGED <<probe, startVars, pc, lastProcessed, head, toBlock, fromBlock, logs,
                 buyer, exitCode, thrown, fails, reports, obsVars>>

\* a buy: variant 1 looks the initiator up, variant 2 sends at once
BeginBuy ==
  /\ pc = "loop"
  /\ idx <= Len(logs)
  /\ IsBuy(logs[idx])
  /\ pc' = IF variant = 1 THEN "lookup" ELSE "send"
  /\ buyer' = NoAddr
  /\ UNCHANGED <<probe, startVars, lastProcessed, head, toBlock, fromBlock, logs, idx,
                 exitCode, thrown, fails, reports, obsVars>>

\* const t = await client.getTransaction({ hash: tx }); buyer = t.from
LookupOk ==
  /\ pc = "lookup"
  /\ buyer' = logs[idx].from
  /\ pc' = "send"
  /\ tick' = [tick EXCEPT !.lookups = @ \cup {LogId(logs[idx])}]
  /\ UNCHANGED <<probe, startVars, lastProcessed, head, toBlock, fromBlock, logs, idx,
                 exitCode, thrown, fails, reports, sent, lastMsg, covered, prevTick>>

\* catch { buyer = null; }
LookupFail ==
  /\ pc = "lookup"
  /\ CanFail
  /\ fails' = fails + 1
  /\ buyer' = NoAddr
  /\ pc' = "send"
  /\ tick' = [tick EXCEPT !.lookups = @ \cup {LogId(logs[idx])},
                          !.lookupFailed = @ \cup {LogId(logs[idx])}]
  /\ UNCHANGED <<probe, startVars, lastProcessed, head, toBlock, fromBlock, logs, idx,
                 exitCode, thrown, reports, sent, lastMsg, covered, prevTick>>

\* the message of logs[idx] is handed to sendTelegram
HandOff ==
  LET m == ComposeMsg(logs[idx], buyer) IN
  /\ sent' = [sent EXCEPT ![m.tx] = @ + 1]
  /\ lastMsg' = m

\* await sendTelegram(msg): r.ok
SendOk ==
  /\ pc = "send"
  /\ HandOff
  /\ tick' = [tick EXCEPT !.dispatched = @ \cup {lastMsg'}]
  /\ idx' = idx + 1
  /\ buyer' = NoAddr
  /\ pc' = "loop"
  /\ UNCHANGED <<probe, startVars, lastProcessed, head, toBlock, fromBlock, logs,
                 exitCode, thrown, fails, reports, covered, prevTick>>

\* !r.ok: console.error("Telegram sendMessage failed:", ...), then returns
SendRejected ==
  /\ pc = "send"
  /\ CanFail
  /\ HandOff
  /\ fails' = fails + 1
  /\ reports' = Report
  /\ tick' = [tick EXCEPT !.dispatched = @ \cup {lastMsg'}, !.deliveryError = TRUE]
  /\ idx' = idx + 1
  /\ buyer' = NoAddr
  /\ pc' = "loop"
  /\ UNCHANGED <<probe, startVars, lastProcessed, head, toBlock, fromBlock, logs,
                 exitCode, thrown, covered, prevTick>>

\* fetch() rejects: sendTelegram rejects into the loop's catch
SendThrows ==
  /\ pc = "send"
  /\ CanFail
  /\ HandOff
  /\ CatchLoopError
  /\ tick' = [tick EXCEPT !.dispatched = @ \cup {lastMsg'}, !.deliveryError = TRUE,
                          !.aborted = TRUE]
  /\ UNCHANGED <<probe, startVars, lastProcessed, tickVars, exitCode, thrown, covered,
                 prevTick>>

\* after the for loop: lastProcessed = toBlock
LoopDone ==
  /\ pc = "loop"
  /\ LoopFinished(idx, logs)
  /\ lastProcessed' = toBlock
  /\ covered' = [b \in Blocks |->
                   IF fromBlock <= b /\ b <= toBlock THEN covered[b] + 1 ELSE covered[b]]
  /\ tick' = [tick EXCEPT !.writes = @ + 1]
  /\ pc' = "sleep"
  /\ UNCHANGED <<probe, startVars, tickVars, exitCode, thrown, fails, reports, sent,
                 lastMsg, prevTick>>

Sleep_Overlap ==
  /\ pc \in {"sleep", "lookup", "send"}
  /\ pc' = "head"
  /\ head' = 0 /\ toBlock' = 0 /\ fromBlock' = 0
  /\ logs' = <<>> /\ idx' = 0 /\ buyer' = NoAddr
  /\ prevTick' = IF tick.fetchFailed
                 THEN [fetchFailed |-> TRUE, from |-> fromBlock, to |-> toBlock,
                       head |-> head]
                 ELSE NoPrev
  /\ tick' = NoTick
  /\ UNCHANGED <<probe, startVars, lastProcessed, exitCode, thrown, fails, reports,
                 sent, lastMsg, covered>>

\* await new Promise((r) => setTimeout(r, POLL_MS)); the next iteration
Sleep ==
  /\ pc = "sleep"
  /\ pc' = "head"
  /\ head' = 0 /\ toBlock' = 0 /\ fromBlock' = 0
  /\ logs' = <<>> /\ idx' = 0 /\ buyer' = NoAddr
  /\ prevTick' = IF tick.fetchFailed
                 THEN [fetchFailed |-> TRUE, from |-> fromBlock, to |-> toBlock,
                       head |-> head]
                 ELSE NoPrev
  /\ tick' = NoTick
  /\ UNCHANGED <<probe, startVars, lastProcessed, exitCode, thrown, fails, reports,
                 sent, lastMsg, covered>>

Startup ==
  \/ ReadToken0Ok \/ ReadToken0Fail \/ ReadToken1Ok \/ ReadToken1Fail
  \/ CheckPairOk \/ CheckPairBad
  \/ ReadFrogMeta \/ ReadOtherMeta
  \/ ReadFrogDecimalsOk \/ ReadFrogDecimalsFail
  \/ ReadFrogSymbolOk \/ ReadFrogSymbolFail
  \/ InitHeadOk \/ InitHeadFail
  \/ OnlineOk \/ OnlineRejected \/ OnlineThrows
  \/ Fatal

Poll ==
  \/ ReadHeadOk \/ ReadHeadFail
  \/ GetLogsOk \/ GetLogsFail
  \/ SkipLog \/ BeginBuy
  \/ LookupOk \/ LookupFail
  \/ SendOk \/ SendRejected \/ SendThrows
  \/ LoopDone
  \/ Sleep

Next == Startup \/ Poll

Spec == Init /\ [][Next]_vars

\* the head reader reports the highest block of the exploration
ReadHeadHigh == ReadHeadOk /\ head' = MaxHead

\* the program after a startup without failures, entering the poll loop
InitLive ==
  /\ variant \in {1, 2}
  /\ chainPair \in { <<FROG_ADDRESS, OTHER_ADDRESS>>, <<OTHER_ADDRESS, FROG_ADDRESS>> }
  /\ token0 = chainPair[1] /\ token1 = chainPair[2]
  /\ IF variant = 1
     THEN /\ frogMeta = readTokenMeta(FROG_ADDRESS, TRUE, TRUE)
          /\ otherMeta = readTokenMeta(OTHER_ADDRESS, TRUE, TRUE)
     ELSE /\ frogMeta = [NoMeta EXCEPT !.decimals = ChainDecimals(FROG_ADDRESS),
                                       !.symbol = ChainSymbol(FROG_ADDRESS)]
          /\ otherMeta = NoMeta
  /\ pc = "head"
  /\ \E h \in 0..MaxHead : lastProcessed = h /\ startupHead = h
  /\ head = 0 /\ toBlock = 0 /\ fromBlock = 0
  /\ logs = <<>> /\ idx = 0 /\ buyer = NoAddr
  /\ exitCode = 0
  /\ thrown = "none" /\ fails = 0 /\ reports = 0
  /\ sent = [id \in LogIds |-> 0]
  /\ lastMsg = NoMsg
  /\ covered = [b \in Blocks |-> 0]
  /\ tick = NoTick
  /\ prevTick = NoPrev
  /\ probe = NoProbe

\* every await of the loop body has a resolving outcome and the timer always
\* fires, so some step of the loop is possible in every state of the loop
PollAlwaysEnabled == ENABLED <<Poll>>_vars

\* the loop never stops (while (true) with a timer): Poll steps recur, which
\* is WF_vars(Poll) because Poll is always enabled; and the chain keeps
\* growing: a head read returns the highest block again and again
SpecLive ==
  /\ InitLive /\ [][Poll]_vars
  /\ []<><<Poll>>_vars
  /\ SF_vars(ReadHeadHigh)

----------------------------------------------------------------------------
\* the loop body on one log with arbitrary amounts: the program has started,
\* read head 3 and fetched the range [1,1], which holds a single Swap log

AmountVals == {Absent, 0, 50, 3000, 2500000}

DecodeId == <<1, 1>>

InitDecode ==
  /\ variant \in {1, 2}
  /\ chainPair \in { <<FROG_ADDRESS, OTHER_ADDRESS>>, <<OTHER_ADDRESS, FROG_ADDRESS>> }
  /\ token0 = chainPair[1] /\ token1 = chainPair[2]
  /\ \E fDecOk \in BOOLEAN, oDecOk \in BOOLEAN :
       IF variant = 1
       THEN /\ frogMeta = readTokenMeta(FROG_ADDRESS, fDecOk, TRUE)
            /\ otherMeta = readTokenMeta(OTHER_ADDRESS, oDecOk, TRUE)
            /\ fails = FailCount(fDecOk, oDecOk)
       ELSE /\ fDecOk /\ oDecOk
            /\ frogMeta = [NoMeta EXCEPT !.decimals = ChainDecimals(FROG_ADDRESS),
                                         !.symbol = ChainSymbol(FROG_ADDRESS)]
            /\ otherMeta = NoMeta
            /\ fails = 0
  /\ pc = "loop"
  /\ lastProcessed = 0 /\ startupHead = 0
  /\ head = 3 /\ toBlock = ToBlockOf(3) /\ fromBlock = FromBlockOf(0)
  /\ \E a0In \in AmountVals, a1In \in AmountVals,
        a0Out \in AmountVals, a1Out \in AmountVals :
       logs = << [ block |-> 1, index |-> 1,
                   amount0In |-> a0In, amount1In |-> a1In,
                   amount0Out |-> a0Out, amount1Out |-> a1Out,
                   to |-> "recipient", from |-> "initiator" ] >>
  /\ idx = 1 /\ buyer = NoAddr
  /\ exitCode = 0 /\ thrown = "none" /\ reports = 0
  /\ sent = [id \in LogIds |-> 0]
  /\ lastMsg = NoMsg
  /\ covered = [b \in Blocks |-> 0]
  /\ tick = [NoTick EXCEPT !.requested = TRUE, !.fetched = TRUE]
  /\ prevTick = NoPrev
  /\ probe = NoProbe

NextDecode ==
  \/ SkipLog \/ BeginBuy
  \/ LookupOk \/ LookupFail
  \/ SendOk \/ SendRejected \/ SendThrows
  \/ LoopDone

SpecDecode == InitDecode /\ [][NextDecode]_vars

----------------------------------------------------------------------------
\* direct calls of the classifier on amounts around every threshold, on
\* non-positive amounts and on non-finite values

ProbeUnits ==
  {-1, 0, 1, 60000} \cup
  { t + d : t \in {100, 1000, 10000, 50000} \cup { Threshold(i) : i \in 0..(LOG_BAR_BLOCKS - 1) },
            d \in {-1, 0, 1} }

ProbeAmounts ==
  { Num(u, f) : u \in ProbeUnits, f \in BOOLEAN } \cup {NaN, Infinity, NegInfinity}

InitClassify ==
  /\ variant \in {1, 2}
  /\ chainPair = <<FROG_ADDRESS, OTHER_ADDRESS>>
  /\ pc = "token0"
  /\ token0 = NoAddr /\ token1 = NoAddr
  /\ frogMeta = NoMeta /\ otherMeta = NoMeta
  /\ lastProcessed = 0
  /\ head = 0 /\ toBlock = 0 /\ fromBlock = 0
  /\ logs = <<>> /\ idx = 0 /\ buyer = NoAddr
  /\ exitCode = 0
  /\ thrown = "none" /\ fails = 0 /\ reports = 0
  /\ startupHead = 0
  /\ sent = [id \in LogIds |-> 0]
  /\ lastMsg = NoMsg
  /\ covered = [b \in Blocks |-> 0]
  /\ tick = NoTick
  /\ prevTick = NoPrev
  /\ \E a \in ProbeAmounts : probe = [NoProbe EXCEPT !.amount = a]

\* badge = tierBadge(amountFrog)
CallTierBadge ==
  /\ probe.badge = ""
  /\ probe' = [probe EXCEPT !.badge = tierBadge(probe.amount)]
  /\ UNCHANGED <<startVars, pc, lastProcessed, tickVars, exitCode, thrown, fails,
                 reports, obsVars>>

\* bar = buildLogBar(amountFrog)
CallBuildLogBar ==
  /\ probe.bar = <<>>
  /\ probe' = [probe EXCEPT !.bar = buildLogBar(probe.amount)]
  /\ UNCHANGED <<startVars, pc, lastProcessed, tickVars, exitCode, thrown, fails,
                 reports, obsVars>>

NextClassify == CallTierBadge \/ CallBuildLogBar

SpecClassify == InitClassify /\ [][NextClassify]_vars

TypeOK ==
  /\ variant \in {1, 2}
  /\ pc \in {"token0", "token1", "check", "frogMeta", "otherMeta", "frogDecimals",
             "frogSymbol", "initHead", "online", "rejected", "exited",
             "head", "getLogs", "loop", "lookup", "send", "sleep"}
  /\ lastProcessed \in 0..MaxHead
  /\ head \in 0..MaxHead /\ toBlock \in 0..MaxHead /\ fromBlock \in 0..(MaxHead + 1)
  /\ idx \in 0..(Len(logs) + 1)
  /\ exitCode \in {0, 1}
  /\ fails \in 0..MaxFail

----------------------------------------------------------------------------
\* properties

LoopPcs == {"head", "getLogs", "loop", "lookup", "send", "sleep"}

\* every buy of the batch was handed to sendTelegram in this tick
AllBuysDispatched ==
  \A i \in 1..Len(logs) :
    IsBuy(logs[i]) => \E m \in tick.dispatched : m.tx = LogId(logs[i])

\* C1: every buy log is handed to the delivery sink at most once over the
\* whole run; no failed delivery is retried and no aborted tick re-dispatches.
ExactOnceDispatch == \A id \in LogIds : sent[id] <= 1

\* C2 (as claimed): whenever logs are requested, toBlock <= head - confirmations,
\* for every head, also heads at or below the confirmation depth.
ConfirmationSafety == pc = "getLogs" => toBlock <= head - CONFIRMATIONS

\* C2 (amended): whenever logs are requested with head above the confirmation
\* depth, toBlock <= head - confirmations; with head at or below the depth the
\* requested toBlock is head itself.
ConfirmationSafetyAboveDepth ==
  pc = "getLogs" =>
    IF head > CONFIRMATIONS THEN toBlock <= head - CONFIRMATIONS ELSE toBlock = head

ConfirmationSafetyWitness ==
  pc = "getLogs" /\ head > CONFIRMATIONS /\ toBlock = head - CONFIRMATIONS

\* C3: the cursor never decreases from one step of the poll loop to the next,
\* whatever heads are reported and whichever ticks abort; it changes only in
\* the loop's own assignment and at most once per tick.
CursorMonotoneStep ==
  pc \in LoopPcs =>
    /\ lastProcessed' >= lastProcessed
    /\ tick'.writes <= 1
    /\ (lastProcessed' # lastProcessed =>
          pc = "loop" /\ pc' = "sleep" /\ tick.writes = 0 /\ tick'.writes = 1)

CursorMonotone == [][CursorMonotoneStep]_vars

CursorMonotoneWitness ==
  pc = "sleep" /\ tick.writes = 1 /\ lastProcessed > tick.cursor0

\* C4: every requested range starts at cursor + 1, and the completed ranges
\* tile the blocks above the startup head: each block b with
\* startupHead < b <= cursor lies in exactly one completed range, every other
\* block in none.
RangesTileOnce ==
  /\ pc \in {"getLogs", "loop", "lookup", "send"} => fromBlock = lastProcessed + 1
  /\ pc \in LoopPcs =>
       \A b \in Blocks :
         covered[b] = IF startupHead < b /\ b <= lastProcessed THEN 1 ELSE 0

RangesTileOnceWitness ==
  pc = "sleep" /\ tick.writes = 1 /\ tick.cursor0 > startupHead

\* C5: a tick in which a delivery failed (sink rejected or unreachable) still
\* dispatches every buy of its batch and ends with the cursor at toBlock.
DeliveryErrorHarmless ==
  (pc = "sleep" /\ tick.deliveryError) =>
    lastProcessed = toBlock /\ AllBuysDispatched

\* C6: the cursor changes in a tick only after the fetch succeeded and every
\* buy of the batch was dispatched, and then it is that tick's toBlock; a tick
\* that aborts leaves the cursor as it was at the start of the tick and goes on
\* to the sleep and the next tick.
CursorAdvanceStep ==
  pc \in LoopPcs =>
    /\ (lastProcessed' # lastProcessed =>
          tick.fetched /\ AllBuysDispatched /\ idx > Len(logs)
          /\ lastProcessed' = toBlock)
    /\ (tick'.aborted => lastProcessed' = tick'.cursor0 /\ pc' = "sleep")
    /\ (pc = "sleep" => pc' = "head" /\ exitCode' = 0)

CursorAdvancesOnlyAfterBatch == [][CursorAdvanceStep]_vars

CursorAdvancesOnlyAfterBatchWitness ==
  pc = "sleep" /\ tick.writes = 1 /\ Cardinality(tick.dispatched) >= 2
  /\ lastProcessed = toBlock

\* C7 (as claimed): after a tick whose fetch failed the cursor is unchanged and
\* the next tick requests the identical range.
RetryRequestsIdenticalRange ==
  (prevTick.fetchFailed /\ pc = "getLogs") =>
    /\ lastProcessed = prevTick.from - 1
    /\ fromBlock = prevTick.from
    /\ toBlock = prevTick.to

\* C7 (amended): after a tick whose fetch failed the cursor is unchanged, and
\* a request of the next tick has the same fromBlock; its toBlock is computed
\* from the head of that tick, and is the same when that head is the same.
RetryRequestsSameFromBlock ==
  /\ (pc = "sleep" /\ tick.fetchFailed) => lastProcessed = fromBlock - 1
  /\ (prevTick.fetchFailed /\ pc \in {"head", "getLogs"}) =>
       lastProcessed = prevTick.from - 1
  /\ (prevTick.fetchFailed /\ pc = "getLogs") =>
       /\ fromBlock = prevTick.from
       /\ (head = prevTick.head => toBlock = prevTick.to)

RetryRequestsSameFromBlockWitness ==
  prevTick.fetchFailed /\ pc = "getLogs" /\ head # prevTick.head
  /\ fromBlock = prevTick.from

\* the recipient recorded in the Swap log with this id
RecipientOf(id) == SwapLog(id[1], id[2]).to

\* C8: a tick in which an initiator lookup failed still dispatches that log
\* with the recipient as actor, handles every later log and ends with the
\* cursor at toBlock.
EnrichmentFailureHarmless ==
  (pc = "sleep" /\ tick.lookupFailed # {}) =>
    /\ \A id \in tick.lookupFailed :
         \E m \in tick.dispatched : m.tx = id /\ m.actor = RecipientOf(id)
    /\ AllBuysDispatched
    /\ lastProcessed = toBlock

\* C9: the process exits only on a configuration error; no failure of an
\* external call ends it.
OnlyConfigErrorsTerminate ==
  (pc = "rejected" \/ exitCode = 1) => thrown = "config"

\* C10: a failed decimals lookup leaves decimals 18, a failed symbol lookup
\* leaves the symbol "TOKEN", and neither rejects main().
MetadataFailureNeverSurfaces ==
  /\ thrown \notin {"decimals", "symbol"}
  /\ \A m \in {frogMeta, otherMeta} :
       /\ m.decFailed => m.decimals = 18
       /\ m.symFailed => m.symbol = "TOKEN"

\* ---- swap decoding (checked under SpecDecode) ----

\* the Out amount of the tracked token's slot, read off the pair directly
TrackedOut == IF token0 = FROG_ADDRESS THEN logs[1].amount0Out ELSE logs[1].amount1Out

\* the In amount of the opposite slot
CounterIn == IF token0 = FROG_ADDRESS THEN logs[1].amount1In ELSE logs[1].amount0In

\* C11: whatever the four amounts and the slot, the log is handed to the sink
\* exactly when the Out amount of the tracked slot is positive; then the bought
\* raw amount is that Out amount and (where a spent amount is reported) the
\* spent raw amount is the In amount of the opposite slot, zero when absent;
\* with a tracked Out of zero nothing is sent and nothing is looked up.
DecodeBuyIffTrackedOut ==
  pc = "sleep" =>
    /\ sent[DecodeId] = 1 <=> TrackedOut > 0
    /\ sent[DecodeId] = 1 =>
         /\ lastMsg.tx = DecodeId
         /\ lastMsg.bought = TrackedOut
         /\ variant = 1 => lastMsg.spent = (IF CounterIn = Absent THEN 0 ELSE CounterIn)
    /\ ~(TrackedOut > 0) =>
         lastMsg = NoMsg /\ tick.dispatched = {} /\ tick.lookups = {}

DecodeBuyIffTrackedOutWitness ==
  /\ pc = "sleep" /\ sent[DecodeId] = 1 /\ variant = 1
  /\ logs[1].amount0In = 0 /\ logs[1].amount1In = 0
  /\ lastMsg.spent = 0 /\ lastMsg.bought = 3000

\* the amounts of the end-to-end example
IsExampleLog ==
  /\ logs[1].amount0In = 0 /\ logs[1].amount1In = 50
  /\ logs[1].amount0Out = 3000 /\ logs[1].amount1Out = 0

\* 3000 and 50 smallest units scaled by the tokens' decimals (both below one unit)
ExampleReported ==
  /\ sent[DecodeId] = 1
  /\ lastMsg.boughtHuman = [units |-> 0, frac |-> 3000, decimals |-> frogMeta.decimals]
  /\ variant = 1 =>
       lastMsg.spentHuman = [units |-> 0, frac |-> 50, decimals |-> otherMeta.decimals]

\* C12 (as claimed): with the tracked token in the second slot the log
\* (0, 50, 3000, 0) is reported as a buy of amount0Out, spent amount1In.
SecondSlotExampleIsBuy ==
  (pc = "sleep" /\ token1 = FROG_ADDRESS /\ IsExampleLog) => ExampleReported

\* C12 (amended): with the tracked token in the first slot the log
\* (0, 50, 3000, 0) is reported as a buy whose bought amount is amount0Out
\* scaled by the tracked token's decimals and whose spent amount (in the
\* variant that reports one) is amount1In scaled by the counter token's
\* decimals; with the tracked token in the second slot it is not reported.
FirstSlotExampleIsBuy ==
  /\ (pc = "sleep" /\ token0 = FROG_ADDRESS /\ IsExampleLog) => ExampleReported
  /\ (pc = "sleep" /\ token1 = FROG_ADDRESS /\ IsExampleLog) => sent[DecodeId] = 0

FirstSlotExampleIsBuyWitness ==
  /\ pc = "sleep" /\ token0 = FROG_ADDRESS /\ IsExampleLog /\ variant = 1
  /\ sent[DecodeId] = 1 /\ frogMeta.decimals = 18 /\ otherMeta.decimals = 6

\* ---- classifier (checked under SpecClassify) ----

\* position of a badge in Splash < Tadpole < Big Frog < Swamp Boss < Frog King
TierRank(badge) ==
  CASE badge = "Splash" -> 0
    [] badge = "Tadpole" -> 1
    [] badge = "Big Frog" -> 2
    [] badge = "Swamp Boss" -> 3
    [] badge = "Frog King" -> 4

\* b <= a for two finite amounts (equal units with unknown fractions compare
\* only when b has no fraction or the two are the same amount)
LessEq(b, a) ==
  b.units < a.units \/ (b.units = a.units /\ (~b.fracPos \/ b = a))

FiniteProbes == { a \in ProbeAmounts : a.kind = "finite" }

\* C15: the badge is the tier whose rank is the number of thresholds
\* (100, 1000, 10000, 50000) the amount reaches, a threshold counting as
\* reached at equality; a non-positive or non-finite amount gets Splash; and
\* no smaller amount gets a higher tier.
TierBadgeMonotoneInclusive ==
  probe.badge # "" =>
    LET a == probe.amount IN
    /\ (a.kind # "finite" \/ a.units < 0 \/ (a.units = 0 /\ ~a.fracPos)) =>
         probe.badge = "Splash"
    /\ (a.kind = "finite" /\ (a.units > 0 \/ a.fracPos) /\ a.units >= 0) =>
         TierRank(probe.badge) =
           Cardinality({ t \in {100, 1000, 10000, 50000} : a.units >= t })
    /\ a.kind = "finite" =>
         \A b \in FiniteProbes :
           LessEq(b, a) => TierRank(tierBadge(b)) <= TierRank(probe.badge)

TierBadgeMonotoneInclusiveWitness ==
  probe.badge = "Tadpole" /\ probe.amount = Num(100, FALSE)

\* number of filled symbols of a bar
FilledIn(bar) == Cardinality({ i \in 1..Len(bar) : bar[i] = BAR_FILLED })

\* C16: for a non-negative amount the bar has exactly LOG_BAR_BLOCKS symbols,
\* k filled ones followed by empty ones; slot i is filled exactly when the
\* amount reaches LOG_BAR_BASE * 2^j for every j <= i; and no smaller amount
\* has more filled slots.
LogBarPrefixFill ==
  (probe.bar # <<>> /\ probe.amount.kind = "finite" /\ probe.amount.units >= 0) =>
    LET a == probe.amount
        bar == probe.bar
        k == FilledIn(bar) IN
    /\ Len(bar) = LOG_BAR_BLOCKS
    /\ \A i \in 1..LOG_BAR_BLOCKS : bar[i] = (IF i <= k THEN BAR_FILLED ELSE BAR_EMPTY)
    /\ \A i \in 0..(LOG_BAR_BLOCKS - 1) :
         bar[i + 1] = BAR_FILLED <=> \A j \in 0..i : a.units >= LOG_BAR_BASE * 2^j
    /\ \A b \in FiniteProbes :
         (b.units >= 0 /\ LessEq(b, a)) => FilledIn(buildLogBar(b)) <= k

LogBarPrefixFillWitness ==
  /\ probe.amount = Num(399, TRUE)
  /\ probe.bar = <<BAR_FILLED, BAR_FILLED>> \o repeat(BAR_EMPTY, LOG_BAR_BLOCKS - 2)

\* ---- composed message, order, ranges, ticks ----

\* C13: a message whose actor comes from the fallback (failed initiator
\* lookup) labels the actor as recipient, not as buyer.
FallbackLabelsRecipient ==
  \A m \in tick.dispatched :
    m.tx \in tick.lookupFailed => m.label = "Recipient"

\* (block, index) of a strictly after (block, index) of b
IdGreater(a, b) == a[1] > b[1] \/ (a[1] = b[1] /\ a[2] > b[2])

DispatchOrderStep ==
  sent' # sent =>
    \A id \in LogIds : sent[id] > 0 => ~IdGreater(id, lastMsg'.tx)

\* C14: over the whole run no log is handed to the sink after a log with a
\* greater (block, index) was handed to it.
DispatchInChronologicalOrder == [][DispatchOrderStep]_vars

\* the head read of this tick succeeded
HeadWasRead ==
  \/ pc \in {"getLogs", "loop", "lookup", "send"}
  \/ pc = "sleep" /\ (tick.requested \/ ~tick.aborted)

\* C17: in every tick fromBlock = cursor + 1 and toBlock = head - confirmations
\* when head > confirmations, else head; a completed batch leaves the cursor
\* equal to toBlock; for head 1000, confirmations 2, cursor 990 the range is
\* [991, 998].
RangeComputation ==
  /\ HeadWasRead =>
       /\ fromBlock = tick.cursor0 + 1
       /\ toBlock = (IF head > CONFIRMATIONS THEN head - CONFIRMATIONS ELSE head)
       /\ tick.requested <=> fromBlock <= toBlock
  /\ (pc = "sleep" /\ tick.writes = 1) => lastProcessed = toBlock
  /\ CONFIRMATIONS = 2 /\ FromBlockOf(990) = 991 /\ ToBlockOf(1000) = 998
  /\ HasRange(FromBlockOf(990), ToBlockOf(1000))

RangeComputationWitness ==
  /\ pc = "sleep" /\ tick.writes = 1 /\ head > CONFIRMATIONS
  /\ lastProcessed = head - CONFIRMATIONS
  /\ lastProcessed > tick.cursor0 + 1

\* C18: a tick whose head read gives cursor + 1 > toBlock goes straight to the
\* sleep: no log fetch, no initiator lookup, no hand-off to the sink, and the
\* cursor is left as it was.
NoRangeNoContact ==
  (HeadWasRead /\ tick.cursor0 + 1 > toBlock) =>
    /\ pc = "sleep"
    /\ ~tick.requested /\ ~tick.fetched /\ ~tick.fetchFailed
    /\ tick.lookups = {} /\ tick.dispatched = {}
    /\ tick.writes = 0 /\ lastProcessed = tick.cursor0

NoRangeNoContactWitness ==
  /\ pc = "sleep" /\ HeadWasRead /\ ~tick.requested
  /\ head < startupHead /\ lastProcessed > startupHead
  /\ \E id \in LogIds : sent[id] > 0

TicksNeverOverlapStep ==
  /\ (pc' = "head" /\ pc # "head") =>
       /\ pc \in {"online", "sleep"}
       /\ pc = "sleep" => (tick.aborted \/ tick.writes = 1 \/ ~tick.requested)
  /\ (pc = "head" /\ pc' # "head") =>
       /\ tick = NoTick /\ logs = <<>> /\ idx = 0 /\ buyer = NoAddr
       /\ tick'.cursor0 = lastProcessed
  /\ pc \in {"getLogs", "loop", "lookup", "send"} =>
       /\ lastProcessed = tick.cursor0
       /\ fromBlock = lastProcessed + 1
       /\ lastProcessed' # lastProcessed => pc' = "sleep"

\* C19: a head read starts a tick only from the sleep that follows a finished
\* tick (aborted, cursor written, or skipped), with no call of an earlier tick
\* under way; between a tick's range computation and its cursor write the
\* cursor is as that tick read it.
TicksNeverOverlap == [][TicksNeverOverlapStep]_vars

TicksNeverOverlapWitness ==
  pc = "getLogs" /\ lastProcessed > startupHead /\ \E id \in LogIds : sent[id] > 0

\* ---- progress (checked under SpecLive) ----

LastConfirmed == MaxHead - CONFIRMATIONS

AllConfirmedDone ==
  /\ lastProcessed >= LastConfirmed
  /\ \A b \in Blocks : (startupHead < b /\ b <= LastConfirmed) => covered[b] = 1
  /\ \A id \in LogIds :
       (startupHead < id[1] /\ id[1] <= LastConfirmed /\ IsBuy(SwapLog(id[1], id[2])))
         => sent[id] >= 1

====
